---- MODULE Spec2Model ----
(***************************************************************************)
(* State-machine model of crypto_agent.py: the retrying HTTP helper        *)
(* fetch_with_backoff, the Gemini call primitive, and the run_analysis     *)
(* pipeline (market data -> news sentiment -> AI analysis -> report).      *)
(*                                                                         *)
(* Spec       the script run from the command line (__main__).             *)
(* LibSpec    run_analysis() called with whatever the module-level         *)
(*            API_KEY holds after import (line 22).                        *)
(* FetchSpec  one fetch_with_backoff call with arbitrary retries / delay.  *)
(***************************************************************************)
EXTENDS Integers, Sequences, FiniteSets, TLC

VARIABLES
    \* ---- run level ----
    pc,               \* position of the run
    API_KEY,          \* module global API_KEY
    net,              \* every HTTP request issued so far in the run, in order
    out,              \* tags of the console messages printed so far
    history_data,     \* shape of history_response.json()
    tech_data,        \* result of fetch_market_data
    news_sentiment,   \* result of fetch_news_sentiment
    prompt_sentiment, \* news_sentiment embedded into get_ai_analysis' prompt
    analysis_text,    \* response_part['text'] inside get_ai_analysis
    ai_report,        \* value returned by get_ai_analysis
    failure,          \* step whose exception reached run_analysis' handler
    \* ---- the fetch_with_backoff call in progress ----
    url,              \* endpoint of the call
    retries,          \* parameter retries
    delay,            \* local delay (mutated by the loop)
    init_delay,       \* value of parameter delay at call time
    i,                \* loop variable
    fpc,              \* "idle" | "running" | "returned" | "raised"
    attempts,         \* outcome of every request of this call, in order
    sleeps,           \* argument of every time.sleep of this call, in order
    warnings,         \* number of "Retryable error ... Retrying in" lines printed
    error             \* the exception the call raised

runVars   == <<pc, API_KEY, out, history_data, tech_data, news_sentiment, prompt_sentiment,
               analysis_text, ai_report, failure>>
fetchVars == <<url, retries, delay, init_delay, i, fpc, attempts, sleeps,
               warnings, error>>
vars      == <<pc, API_KEY, net, out, history_data, tech_data, news_sentiment, prompt_sentiment,
               analysis_text, ai_report, failure,
               url, retries, delay, init_delay, i, fpc, attempts, sleeps,
               warnings, error>>

-----------------------------------------------------------------------------
(* Bounds and program constants                                            *)

\* largest `retries` argument tried in FetchSpec
MaxRetries == 4

\* largest initial `delay` argument tried in FetchSpec
MaxDelay == 3

\* default of parameter retries
DefaultRetries == 3

\* default of parameter delay
DefaultDelay == 2

-----------------------------------------------------------------------------
(* Exceptions                                                              *)

NoError == [type |-> "none", attempt |-> 0]

\* raise Exception("Fetch failed after all retries.")
ExhaustedError == [type |-> "Exception", attempt |-> 0]

\* direct base class of each exception type used
ExcParent(t) ==
    CASE t = "HTTPError"        -> "RequestException"
      [] t = "ConnectionError"  -> "RequestException"
      [] t = "RequestException" -> "Exception"
      [] t = "JSONDecodeError"  -> "ValueError"
      [] t = "ValueError"       -> "Exception"
      [] t = "KeyError"         -> "Exception"
      [] t = "IndexError"       -> "Exception"
      [] t = "TypeError"        -> "Exception"
      [] OTHER                  -> "Exception"

\* isinstance(<exception of type t>, c), i.e. `except c` catches t
RECURSIVE IsInstance(_, _)
IsInstance(t, c) ==
    IF t = c THEN TRUE
    ELSE IF t = "Exception" THEN FALSE
    ELSE IsInstance(ExcParent(t), c)

-----------------------------------------------------------------------------
(* fetch_with_backoff                                                      *)

Statuses == {200, 404, 429, 503}

\* what one requests.get / requests.post can produce
Outcomes == [kind : {"status"}, code : Statuses]
            \cup {[kind |-> "neterr", code |-> 0]}

IsNetErr(o) == o.kind = "neterr"

\* response.status_code == 429 or 500 <= response.status_code <= 599
IsRetryableStatus(o) ==
    /\ o.kind = "status"
    /\ (o.code = 429 \/ (o.code >= 500 /\ o.code <= 599))

\* response.raise_for_status() raises HTTPError
RaisesForStatus(o) ==
    /\ o.kind = "status"
    /\ o.code >= 400 /\ o.code <= 599

\* the class named by the except clause of the retry loop
FetchExceptClass == "RequestException"

\* exception type raised inside the try block for outcome o ("none": no raise)
RaisedInTry(o) ==
    IF IsNetErr(o) THEN "ConnectionError"
    ELSE IF ~IsRetryableStatus(o) /\ RaisesForStatus(o) THEN "HTTPError"
    ELSE "none"

IsLastAttemptOffByOne(k, n) == k = n

\* if i == retries - 1
IsLastAttempt(k, n) == k = n - 1

NextDelayAdditive(d) == d + 2

\* delay *= 2
NextDelay(d) == d * 2

LoopContinuesInclusive(k, n) == k <= n

\* for i in range(retries): is there an iteration with loop variable k
LoopContinues(k, n) == k < n

\* state of a fresh call fetch_with_backoff(u, retries=r, delay=d)
StartFetch(u, r, d) ==
    /\ url' = u
    /\ retries' = r
    /\ delay' = d
    /\ init_delay' = d
    /\ i' = 0
    /\ attempts' = <<>>
    /\ sleeps' = <<>>
    /\ warnings' = 0
    /\ fpc' = IF LoopContinues(0, r) THEN "running" ELSE "raised"
    /\ error' = IF LoopContinues(0, r) THEN NoError ELSE ExhaustedError

\* the loop moves on to iteration i+1 after having slept
SleepAndContinue ==
    /\ sleeps' = Append(sleeps, delay)
    /\ delay' = NextDelay(delay)
    /\ i' = i + 1
    /\ fpc' = IF LoopContinues(i + 1, retries) THEN "running" ELSE "raised"
    /\ error' = IF LoopContinues(i + 1, retries) THEN NoError ELSE ExhaustedError

\* one iteration of the retry loop: the request and everything done with it
FetchIteration ==
    /\ fpc = "running"
    /\ \E o \in Outcomes :
         LET exc == RaisedInTry(o) IN
         /\ attempts' = Append(attempts, o)
         /\ net' = Append(net, url)
         /\ IF IsRetryableStatus(o)
            THEN \* print warning; time.sleep(delay); delay *= 2; continue
                 /\ warnings' = warnings + 1
                 /\ SleepAndContinue
                 /\ out' = out
            ELSE IF exc = "none"
            THEN \* return response
                 /\ fpc' = "returned"
                 /\ UNCHANGED <<warnings, sleeps, delay, i, error, out>>
            ELSE IF ~IsInstance(exc, FetchExceptClass)
            THEN \* not caught by the loop
                 /\ fpc' = "raised"
                 /\ error' = [type |-> exc, attempt |-> i + 1]
                 /\ UNCHANGED <<warnings, sleeps, delay, i, out>>
            ELSE IF IsLastAttempt(i, retries)
            THEN \* print "Fetch failed after all retries"; raise
                 /\ fpc' = "raised"
                 /\ error' = [type |-> exc, attempt |-> i + 1]
                 /\ out' = out \cup {"fetch_failed"}
                 /\ UNCHANGED <<warnings, sleeps, delay, i>>
            ELSE \* time.sleep(delay); delay *= 2
                 /\ SleepAndContinue
                 /\ UNCHANGED <<warnings, out>>
    /\ UNCHANGED <<url, retries, init_delay>>
    /\ UNCHANGED <<pc, API_KEY, history_data, tech_data, news_sentiment,
                   prompt_sentiment, analysis_text, ai_report, failure>>

-----------------------------------------------------------------------------
(* JSON values and json.loads                                              *)

Fields == {"analysis", "recommendation", "confidence"}

\* a parsed JSON value: an object with some of the report's fields, or not
JsonObject(ks, a, r, c) ==
    [kind |-> "object", keys |-> ks,
     val |-> [analysis |-> a, recommendation |-> r, confidence |-> c]]

JsonOther(k) ==
    [kind |-> k, keys |-> {},
     val |-> [analysis |-> "", recommendation |-> "", confidence |-> ""]]

\* ai_report before get_ai_analysis has returned
NoReport == JsonOther("unset")

T_FULL    == "{\"analysis\":\"a\",\"recommendation\":\"Buy\",\"confidence\":\"High\"}"
T_PARTIAL == "{\"analysis\":\"a\"}"
T_BLANK   == "{\"analysis\":\"a\",\"recommendation\":\"\",\"confidence\":\"High\"}"
T_ARRAY   == "[]"
T_PROSE   == "Here is my analysis: Buy"
T_CUT     == "{\"analysis\":\"a\","

\* texts the model may return for the analysis request
ModelTexts == {T_FULL, T_PARTIAL, T_BLANK, T_ARRAY, T_PROSE, T_CUT}

\* texts the model may return for the news request
NewsTexts == {"Headlines: ... Overall sentiment is positive."}

\* json.loads(text); kind "JSONDecodeError" stands for the raise
JsonLoads(t) ==
    CASE t = T_FULL    -> JsonObject(Fields, "a", "Buy", "High")
      [] t = T_PARTIAL -> JsonObject({"analysis"}, "a", "", "")
      [] t = T_BLANK   -> JsonObject(Fields, "a", "", "High")
      [] t = T_ARRAY   -> JsonOther("array")
      [] OTHER         -> JsonOther("JSONDecodeError")

-----------------------------------------------------------------------------
(* FetchSpec: a single direct call of fetch_with_backoff                   *)

IdleFetch ==
    /\ url = "none" /\ retries = 0 /\ delay = 0 /\ init_delay = 0 /\ i = 0
    /\ fpc = "idle" /\ attempts = <<>> /\ sleeps = <<>> /\ warnings = 0
    /\ error = NoError

FetchInit ==
    /\ pc = "call"
    /\ API_KEY = "None"
    /\ net = <<>>
    /\ out = {}
    /\ history_data = "unset"
    /\ tech_data = "unset"
    /\ news_sentiment = "unset"
    /\ prompt_sentiment = "unset"
    /\ analysis_text = "unset"
    /\ ai_report = NoReport
    /\ failure = "none"
    /\ IdleFetch

\* fetch_with_backoff(url, retries=r, delay=d) is entered
FetchCall ==
    /\ pc = "call" /\ fpc = "idle"
    /\ \E r \in 0..MaxRetries, d \in 1..MaxDelay : StartFetch("any", r, d)
    /\ UNCHANGED <<net>>
    /\ UNCHANGED runVars

FetchNext == FetchCall \/ FetchIteration

FetchSpec == FetchInit /\ [][FetchNext]_vars /\ WF_vars(FetchIteration)

-----------------------------------------------------------------------------
(* call_gemini_api                                                         *)

\* values of the credential sources: absent, empty, or a key
KeyValues == {"None", "", "KEY"}

\* Python truthiness of a credential value (`if not API_KEY`)
Truthy(k) == k # "None" /\ k # ""

\* bodies the generative endpoint may answer with on a 2xx response
GeminiBodies(texts) ==
    {[shape |-> s, text |-> ""] :
        s \in {"not_json", "empty_candidates", "no_candidates", "no_text"}}
    \cup {[shape |-> "text", text |-> t] : t \in texts}

\* response.json() and the walk down to content_part
CallGeminiParse(body) ==
    CASE body.shape = "not_json"         -> [exc |-> "JSONDecodeError", text |-> ""]
      [] body.shape = "empty_candidates" -> [exc |-> "IndexError", text |-> ""]
      [] body.shape = "no_candidates"    -> [exc |-> "Exception", text |-> ""]
      [] body.shape = "no_text"          -> [exc |-> "Exception", text |-> ""]
      [] OTHER                           -> [exc |-> "none", text |-> body.text]

-----------------------------------------------------------------------------
(* run_analysis and the steps it calls                                     *)

\* "News sentiment could not be retrieved."
FALLBACK == "News sentiment could not be retrieved."

FetchNewsSentimentExceptNarrow == "RequestException"

\* the class named by fetch_news_sentiment's except clause
FetchNewsSentimentExceptClass == "Exception"

FetchMarketDataSwallows == FALSE

\* fetch_market_data's except clause ends in `raise`
FetchMarketDataReraises == TRUE

GetAiAnalysisResultLenient(text) ==
    IF JsonLoads(text).kind = "JSONDecodeError"
    THEN JsonObject(Fields, text, "Hold", "Low")
    ELSE JsonLoads(text)

\* return json.loads(response_part['text'])
GetAiAnalysisResult(text) == JsonLoads(text)

\* the exception reaches `except Exception as e` of run_analysis
FailRun(step, tags) ==
    /\ pc' = "done"
    /\ failure' = step
    /\ out' = out \cup tags \cup {"top_error"}
    /\ UNCHANGED fetchVars

\* get_ai_analysis(crypto_name, td, sent) up to its HTTP call
EnterAnalysis(td, sent, tags) ==
    IF td = "None"
    THEN \* tech_data['current_price'] while building user_prompt
         /\ prompt_sentiment' = prompt_sentiment
         /\ FailRun("analysis", tags \cup {"step3"})
    ELSE IF ~Truthy(API_KEY)
    THEN \* call_gemini_api raises ValueError
         /\ prompt_sentiment' = sent
         /\ FailRun("analysis", tags \cup {"step3", "analysis_error"})
    ELSE /\ prompt_sentiment' = sent
         /\ pc' = "analysis"
         /\ failure' = failure
         /\ out' = out \cup tags \cup {"step3"}
         /\ StartFetch("gemini", DefaultRetries, DefaultDelay)

\* an exception of type exc inside fetch_news_sentiment's try block
NewsHandle(exc, td, tags) ==
    IF IsInstance(exc, FetchNewsSentimentExceptClass)
    THEN /\ news_sentiment' = FALLBACK
         /\ EnterAnalysis(td, FALLBACK, tags \cup {"news_warning"})
    ELSE /\ UNCHANGED <<news_sentiment, prompt_sentiment>>
         /\ FailRun("news", tags)

\* fetch_news_sentiment(crypto_name) up to its HTTP call
EnterNews(td, tags) ==
    IF ~Truthy(API_KEY)
    THEN NewsHandle("ValueError", td, tags \cup {"step2"})
    ELSE /\ pc' = "news"
         /\ failure' = failure
         /\ out' = out \cup tags \cup {"step2"}
         /\ UNCHANGED <<news_sentiment, prompt_sentiment>>
         /\ StartFetch("gemini", DefaultRetries, DefaultDelay)

\* an exception inside fetch_market_data's try block
MarketFail ==
    IF FetchMarketDataReraises
    THEN /\ FailRun("market_data", {"market_error"})
         /\ UNCHANGED <<tech_data, news_sentiment, prompt_sentiment>>
    ELSE /\ tech_data' = "None"
         /\ EnterNews("None", {"market_error"})

MainProceedsUnlessNone(key) == key # "None"

\* `if not API_KEY: ... else: run_analysis()`
MainProceeds(key) == Truthy(key)

\* the module is run as a script: argument parsing and the credential check
Main ==
    /\ pc = "main"
    /\ \E cli \in KeyValues :
         /\ API_KEY' = IF Truthy(cli) THEN cli ELSE API_KEY
         /\ IF MainProceeds(API_KEY')
            THEN pc' = "run_analysis" /\ out' = out
            ELSE pc' = "done" /\ out' = out \cup {"no_key_error"}
    /\ UNCHANGED <<net, history_data, tech_data, news_sentiment, prompt_sentiment,
                   analysis_text, ai_report, failure>>
    /\ UNCHANGED fetchVars

\* run_analysis up to the first HTTP call of fetch_market_data
RunAnalysis ==
    /\ pc = "run_analysis"
    /\ \E crypto_input \in {"", "btc"} :
         IF crypto_input = ""
         THEN /\ pc' = "done"
              /\ out' = out \cup {"no_input"}
              /\ UNCHANGED fetchVars
         ELSE /\ pc' = "history"
              /\ out' = out \cup {"analyzing", "step1"}
              /\ StartFetch("market_chart", DefaultRetries, DefaultDelay)
    /\ UNCHANGED <<API_KEY, net, history_data, tech_data, news_sentiment,
                   prompt_sentiment, analysis_text, ai_report, failure>>

\* shapes of the price-history body
HistoryBodies == {"not_json", "no_prices", "short", "ok"}

\* shapes of the current-price body
PriceBodies == {"not_json", "no_id", "ok"}

\* fetch_market_data after the history call: json(), then the price call
HistoryDone ==
    /\ pc = "history" /\ fpc \in {"returned", "raised"}
    /\ IF fpc = "raised"
       THEN MarketFail /\ history_data' = history_data
       ELSE \E body \in HistoryBodies :
              IF body = "not_json"
              THEN MarketFail /\ history_data' = history_data
              ELSE /\ history_data' = body
                   /\ pc' = "price"
                   /\ StartFetch("simple_price", DefaultRetries, DefaultDelay)
                   /\ UNCHANGED <<out, failure, tech_data, news_sentiment,
                                  prompt_sentiment>>
    /\ UNCHANGED <<API_KEY, net, analysis_text, ai_report>>

\* lines 133-159: exception type raised while building the snapshot
ProcessMarketData(h, p) ==
    CASE p = "not_json"  -> "JSONDecodeError"
      [] h = "no_prices" -> "KeyError"
      [] h = "short"     -> "IndexError"
      [] p = "no_id"     -> "KeyError"
      [] OTHER           -> "none"

\* fetch_market_data after the price call, then fetch_news_sentiment's start
PriceDone ==
    /\ pc = "price" /\ fpc \in {"returned", "raised"}
    /\ IF fpc = "raised"
       THEN MarketFail
       ELSE \E body \in PriceBodies :
              IF ProcessMarketData(history_data, body) # "none"
              THEN MarketFail
              ELSE /\ tech_data' = "snapshot"
                   /\ EnterNews("snapshot", {})
    /\ UNCHANGED <<API_KEY, net, history_data, analysis_text, ai_report>>

\* fetch_news_sentiment after its HTTP call, then get_ai_analysis' start
NewsDone ==
    /\ pc = "news" /\ fpc \in {"returned", "raised"}
    /\ IF fpc = "raised"
       THEN NewsHandle(error.type, tech_data, {})
       ELSE \E body \in GeminiBodies(NewsTexts) :
              LET r == CallGeminiParse(body) IN
              IF r.exc # "none"
              THEN NewsHandle(r.exc, tech_data, {})
              ELSE /\ news_sentiment' = r.text
                   /\ EnterAnalysis(tech_data, r.text, {})
    /\ UNCHANGED <<API_KEY, net, history_data, tech_data, analysis_text, ai_report>>

\* lines 291-299: the sections printed before the first failing subscript
ReportTags(v) ==
    {"tech_section", "ai_header"}
    \cup (IF v.kind = "object" /\ "analysis" \in v.keys
          THEN {"ai_analysis"} ELSE {})
    \cup (IF v.kind = "object" /\ {"analysis", "recommendation"} \subseteq v.keys
          THEN {"ai_recommendation"} ELSE {})
    \cup (IF v.kind = "object" /\ Fields \subseteq v.keys
          THEN {"ai_confidence"} ELSE {})

\* get_ai_analysis after its HTTP call, then the report of run_analysis
AnalysisDone ==
    /\ pc = "analysis" /\ fpc \in {"returned", "raised"}
    /\ IF fpc = "raised"
       THEN /\ FailRun("analysis", {"analysis_error"})
            /\ UNCHANGED <<analysis_text, ai_report>>
       ELSE \E body \in GeminiBodies(ModelTexts) :
              LET r == CallGeminiParse(body)
                  v == GetAiAnalysisResult(r.text)
              IN
              IF r.exc # "none"
              THEN /\ FailRun("analysis",
                              IF IsInstance(r.exc, "JSONDecodeError")
                              THEN {"invalid_json"} ELSE {"analysis_error"})
                   /\ UNCHANGED <<analysis_text, ai_report>>
              ELSE IF v.kind = "JSONDecodeError"
              THEN /\ analysis_text' = r.text
                   /\ ai_report' = ai_report
                   /\ FailRun("analysis", {"invalid_json", "raw_response"})
              ELSE /\ analysis_text' = r.text
                   /\ ai_report' = v
                   /\ IF v.kind = "object" /\ Fields \subseteq v.keys
                      THEN /\ pc' = "done"
                           /\ failure' = failure
                           /\ out' = out \cup ReportTags(v)
                           /\ UNCHANGED fetchVars
                      ELSE FailRun("report", ReportTags(v))
    /\ UNCHANGED <<API_KEY, net, history_data, tech_data, news_sentiment,
                   prompt_sentiment>>

-----------------------------------------------------------------------------
(* Spec: the script; LibSpec: run_analysis() called after import           *)

Init ==
    /\ pc = "main"
    /\ API_KEY \in KeyValues
    /\ net = <<>>
    /\ out = {}
    /\ history_data = "unset"
    /\ tech_data = "unset"
    /\ news_sentiment = "unset"
    /\ prompt_sentiment = "unset"
    /\ analysis_text = "unset"
    /\ ai_report = NoReport
    /\ failure = "none"
    /\ IdleFetch

RunNext ==
    \/ RunAnalysis
    \/ FetchIteration
    \/ HistoryDone
    \/ PriceDone
    \/ NewsDone
    \/ AnalysisDone

Next == Main \/ RunNext

Spec == Init /\ [][Next]_vars

LibInit ==
    /\ pc = "run_analysis"
    /\ API_KEY \in KeyValues
    /\ net = <<>>
    /\ out = {}
    /\ history_data = "unset"
    /\ tech_data = "unset"
    /\ news_sentiment = "unset"
    /\ prompt_sentiment = "unset"
    /\ analysis_text = "unset"
    /\ ai_report = NoReport
    /\ failure = "none"
    /\ IdleFetch

LibSpec == LibInit /\ [][RunNext]_vars

-----------------------------------------------------------------------------
(* Properties of one fetch_with_backoff call (FetchSpec)                   *)

RECURSIVE Pow2(_)
Pow2(k) == IF k <= 0 THEN 1 ELSE 2 * Pow2(k - 1)

Range(q) == {q[k] : k \in 1..Len(q)}

FetchDone == fpc \in {"returned", "raised"}

\* a status that is neither 2xx nor 429 nor 5xx
IsTerminalStatus(o) ==
    /\ o.kind = "status"
    /\ ~(o.code >= 200 /\ o.code <= 299)
    /\ o.code # 429
    /\ ~(o.code >= 500 /\ o.code <= 599)

\* a failure the retry policy is meant to retry: 429, 5xx, network error
IsRetryableFailure(o) == IsNetErr(o) \/ IsRetryableStatus(o)

AllAttemptsRetryable == \A k \in 1..Len(attempts) : IsRetryableFailure(attempts[k])

\* C1: a response whose status is neither 2xx nor 429 nor 5xx ends the call at
\* once: it is the last request of the call, no sleep follows it, and the call
\* has raised the HTTPError of that attempt.
C1_TerminalStatusFailsImmediately ==
    \A k \in 1..Len(attempts) :
        IsTerminalStatus(attempts[k]) =>
            /\ k = Len(attempts)
            /\ Len(sleeps) <= k - 1
            /\ fpc = "raised"
            /\ error = [type |-> "HTTPError", attempt |-> k]

\* C2: the sleep before the k-th retry is initialDelay * 2^(k-1), and whenever
\* a further request is about to be issued every failure so far has been
\* followed by exactly one sleep and exactly one doubling of delay.
C2_BackoffDoubles ==
    /\ \A k \in 1..Len(sleeps) : sleeps[k] = init_delay * Pow2(k - 1)
    /\ fpc = "running" =>
          /\ Len(sleeps) = Len(attempts)
          /\ delay = init_delay * Pow2(Len(attempts))

\* C2 witness: a third retry after a mix of network errors and 429/5xx
C2_Witness ==
    /\ Len(attempts) = 4
    /\ IsNetErr(attempts[1])
    /\ IsRetryableStatus(attempts[2])
    /\ init_delay = 3
    /\ sleeps[3] = 12

\* the call has failed and every one of its attempts failed retryably
Exhausted == fpc = "raised" /\ AllAttemptsRetryable

HasNetErr == \E k \in 1..Len(attempts) : IsNetErr(attempts[k])

LastNetErr == CHOOSE k \in 1..Len(attempts) :
                 /\ IsNetErr(attempts[k])
                 /\ \A j \in (k + 1)..Len(attempts) : ~IsNetErr(attempts[j])

\* C3 as stated: on exhaustion the call has made `retries` attempts and raises
\* the last network error if any attempt raised one, the generic error only if
\* none did.
C3_LastNetworkErrorSurfaced ==
    Exhausted =>
        /\ Len(attempts) = retries
        /\ HasNetErr => error = [type |-> "ConnectionError", attempt |-> LastNetErr]
        /\ ~HasNetErr => error = ExhaustedError

\* C3 amended: on exhaustion the call has made `retries` attempts; it raises
\* the final attempt's network error if the final attempt ended in one, and
\* the generic error if the final attempt ended in 429/5xx (or retries = 0),
\* whatever the earlier attempts raised.
C3_FinalAttemptDecidesError ==
    Exhausted =>
        /\ Len(attempts) = retries
        /\ (retries > 0 /\ IsNetErr(attempts[Len(attempts)])) =>
              error = [type |-> "ConnectionError", attempt |-> Len(attempts)]
        /\ (retries = 0 \/ (retries > 0 /\ IsRetryableStatus(attempts[Len(attempts)]))) =>
              error = ExhaustedError

\* C3 witness: exhaustion with the generic error after an earlier network error
C3_Witness ==
    /\ Exhausted
    /\ Len(attempts) = 3
    /\ IsNetErr(attempts[1])
    /\ IsRetryableStatus(attempts[3])
    /\ error = ExhaustedError

\* C8: once a call whose failures were all 429/5xx or network errors is over,
\* the number of retry warnings it printed equals the number of retries
\* (requests after the first) it made.
C8_OneWarningPerRetry ==
    (FetchDone /\ \A k \in 1..Len(attempts) : ~IsTerminalStatus(attempts[k])) =>
        warnings = (IF Len(attempts) = 0 THEN 0 ELSE Len(attempts) - 1)

\* C10: a call never issues more than `retries` requests, an iteration that is
\* running leads to the call having returned or raised, and once it has
\* returned or raised it issues no request and stays finished.
C10_FetchTerminates ==
    /\ [](Len(attempts) <= retries)
    /\ (fpc = "running") ~> FetchDone
    /\ [][FetchDone => (attempts' = attempts /\ net' = net /\ fpc' = fpc)]_vars

\* C10 witness: a call that used up all of its attempts
C10_Witness ==
    /\ fpc = "raised"
    /\ retries = 3
    /\ Len(attempts) = 3
    /\ Len(net) = 3

-----------------------------------------------------------------------------
(* Properties of the run (Spec, LibSpec)                                   *)

ReportSections == {"tech_section", "ai_header", "ai_analysis",
                   "ai_recommendation", "ai_confidence"}

\* fetch_news_sentiment has been called and has returned or raised
NewsFinished == "step2" \in out /\ pc # "news"

\* C4: whatever way fetch_news_sentiment's model call ends, the failure never
\* reaches the run's handler; get_ai_analysis is entered with the value it
\* returned, and that value is the fallback string whenever the call failed
\* (warning printed, credential missing, or fetch_with_backoff raised).
C4_NewsFailureSwallowed ==
    /\ [](/\ failure # "news"
          /\ NewsFinished =>
                /\ news_sentiment \in NewsTexts \cup {FALLBACK}
                /\ "step3" \in out
                /\ prompt_sentiment = news_sentiment
          /\ (NewsFinished /\ ~Truthy(API_KEY)) => news_sentiment = FALLBACK
          /\ "news_warning" \in out => news_sentiment = FALLBACK)
    /\ [][(pc = "news" /\ fpc = "raised" /\ pc' # pc) =>
             (/\ news_sentiment' = FALLBACK
              /\ prompt_sentiment' = FALLBACK
              /\ pc' = "analysis")]_vars

\* C4 witness: a run that printed its whole report after the news call failed
C4_Witness ==
    /\ "news_warning" \in out
    /\ prompt_sentiment = FALLBACK
    /\ pc = "done"
    /\ failure = "none"
    /\ ReportSections \subseteq out

\* texts that are not valid JSON
InvalidJsonTexts == {T_PROSE, T_CUT}

\* C5: when the analysis text is not valid JSON the run is over with the
\* analysis failure at its top level, no section of the report is printed,
\* no report value exists, and no further request is ever issued.
C5_InvalidJsonNoReport ==
    /\ [](analysis_text \in InvalidJsonTexts =>
             /\ pc = "done"
             /\ failure = "analysis"
             /\ "top_error" \in out
             /\ out \cap ReportSections = {}
             /\ ai_report = NoReport
             /\ fpc = "returned")
    /\ [][(analysis_text \in InvalidJsonTexts) => (net' = net)]_vars

\* C5 witness: the model answered the analysis request with prose
C5_Witness ==
    /\ analysis_text = T_PROSE
    /\ "invalid_json" \in out
    /\ pc = "done"

\* C6: with no usable credential after argument parsing, the run ends with
\* the configuration error and not a single request has been issued.
C6_NoKeyNoNetwork ==
    (pc # "main" /\ ~Truthy(API_KEY)) =>
        /\ pc = "done"
        /\ "no_key_error" \in out
        /\ net = <<>>
        /\ fpc = "idle"

\* C6 witness: the script ended on the configuration error
C6_Witness ==
    /\ pc = "done"
    /\ API_KEY = ""
    /\ "no_key_error" \in out

\* C7: a report returned by get_ai_analysis is an object holding all three
\* fields, each non-empty.
C7_ReportComplete ==
    ai_report # NoReport =>
        /\ ai_report.kind = "object"
        /\ Fields \subseteq ai_report.keys
        /\ \A f \in Fields : ai_report.val[f] # ""

\* C9: a request to the generative endpoint is only ever issued after both
\* market-data calls succeeded and the snapshot was built, every market-data
\* request precedes every model request, and after a market-data failure the
\* run is over and issues no request.
C9_ModelOnlyAfterMarketData ==
    /\ [](/\ "gemini" \in Range(net) =>
                /\ tech_data = "snapshot"
                /\ history_data = "ok"
                /\ {"market_chart", "simple_price"} \subseteq Range(net)
          /\ \A j, k \in 1..Len(net) :
                (j < k /\ net[j] = "gemini") => net[k] = "gemini"
          /\ failure = "market_data" =>
                /\ pc = "done"
                /\ "gemini" \notin Range(net))
    /\ [][(failure = "market_data") => (net' = net)]_vars

\* C9 witness: the first model request of a run whose market calls were retried
C9_Witness ==
    /\ Len(net) = 5
    /\ net[5] = "gemini"
    /\ net[4] = "simple_price"
    /\ net[2] = "market_chart"

====
